---- MODULE Spec2Model ----
(***************************************************************************)
(* PaletteColorLookupTable of src/color.js: the constructor, the segmented *)
(* LUT decoder (_expandSegmentedLUTData) and the lazily cached `data`      *)
(* getter.                                                                 *)
(*                                                                         *)
(* JavaScript values.  Numbers are integers.  A field that holds null or   *)
(* undefined, or else an array, is a record [given, items]: `given` is     *)
(* FALSE for null/undefined and `items` is the array written as a sequence *)
(* (JS index j is position j + 1).  The value `undefined` read from an     *)
(* array outside its bounds, and NaN, are the two values Undefined and NaN *)
(* below; every number the model computes is within +-2^18 (entries and    *)
(* operands are at most 2^16), so neither is ever met as a number.         *)
(* Typed arrays hold unsigned integers of the table's width.               *)
(*                                                                         *)
(* Segmented programs are sequences of whole segments (opcode, length,     *)
(* value) with operands >= 0, as the unsigned words of the format are.     *)
(***************************************************************************)
EXTENDS Integers, Sequences, FiniteSets, TLC

VARIABLES
    constructed,       \* TRUE once `new PaletteColorLookupTable` returned an object
    attrs,             \* this[_attrs] of that object
    descriptors,       \* the three descriptors handed to the constructor
    lastCall,          \* "none", "new" or "data": the operation that ran last
    lastError,         \* the Error that operation threw, or NoError
    returned,          \* what the last read of `data` returned (null if none)
    reads,             \* reads of `data` so far
    materializations   \* times the body of `if (data == null)` ran to its end

vars == <<constructed, attrs, descriptors, lastCall, lastError, returned,
          reads, materializations>>

---------------------------------------------------------------------------
\* Bounds of the model.

\* Largest number of entries a descriptor names, besides the 0 that stands
\* for 2^16.
MaxEntries == 4

\* Reads of `data` on one object.
MaxReads == 2

---------------------------------------------------------------------------
\* JavaScript values.

Undefined == -(2^30)

NaN == -(2^30) - 1

Null == [given |-> FALSE, items |-> <<>>]

Arr(s) == [given |-> TRUE, items |-> s]

\* x == null
IsNull(x) == ~x.given

\* arr[j] of an array or typed array: undefined outside 0 .. length-1.
At(arr, j) == IF j >= 0 /\ j < Len(arr) THEN arr[j + 1] ELSE Undefined

\* Math.round(num / den) for den > 0: the nearest integer, a tie going up.
\* The quotients the code rounds are k + 1/2 only when exactly so in binary
\* floating point, and are otherwise at least 1/(2 * den) away from a tie,
\* so rounding the exact quotient is rounding the double.
MathRound(num, den) == (2 * num + den) \div (2 * den)

\* The conversion a Uint8Array (bits = 8) or Uint16Array (bits = 16) applies
\* to a stored number: NaN is stored as 0, an integer modulo 2^bits.
ToUint(bits, x) == IF x = NaN THEN 0 ELSE x % (2 ^ bits)

\* typedArray[j] = x: a write outside 0 .. length-1 is ignored.
TypedArraySet(lut, j, x, bits) ==
    IF j >= 0 /\ j < Len(lut)
    THEN [lut EXCEPT ![j + 1] = ToUint(bits, x)]
    ELSE lut

\* An array written out entry by entry: the same sequence as f.
Entries(f) == f \o <<>>

\* new DataType(array): a typed copy of the same length.
TypedArrayFrom(items, bits) ==
    Entries([k \in 1..Len(items) |-> ToUint(bits, items[k])])

\* A variant that allocates one slot too many.
AllocateLUTOffByOne(n) == Entries([k \in 1..(n + 1) |-> 0])

\* new DataType(n): n zeros.
AllocateLUT(n) == Entries([k \in 1..n |-> 0])

---------------------------------------------------------------------------
\* Errors, named by the message thrown.

NoError == "none"
FirstDescriptorMismatch == "First value of Descriptor must be the same"
SecondDescriptorMismatch == "Second value of Descriptor must be the same"
ThirdDescriptorMismatch == "Third value of Descriptor must be the same"
UnsupportedBits == "Third value of Descriptor must be either 8 or 16"
RedBoth == "Red: should be provided, but not both"
RedMissing == "Red: must be provided"
RedWrongLength == "Red Data has wrong number of entries"
GreenBoth == "Green: should be provided, but not both"
GreenMissing == "Green: must be provided"
GreenWrongLength == "Green Data has wrong number of entries"
BlueBoth == "Blue: must be provided, but not both"
BlueWrongLength == "Blue Data has wrong number of entries"
IndirectNotSupported == "Indirect segment type is not yet supported"
UnexpectedSegmentType == "Encountered unexpected segment type"
SizeMismatch == "Red, Green, and Blue tables must have the same size"
\* segmentedData.length of null or undefined
TypeErrorNoLength == "TypeError: cannot read properties of undefined"

---------------------------------------------------------------------------
\* _expandSegmentedLUTData

\* Discrete segment: lut[j] = value for j in offset .. offset+length-1.
\* The writes are independent of each other.
WriteDiscrete(lut, offset, length, value, bits) ==
    Entries([k \in 1..Len(lut) |->
                IF k - 1 >= offset /\ k - 1 < offset + length
                THEN ToUint(bits, value)
                ELSE lut[k]])

\* Math.round(lut[j - 1] + step) with step = (endpoint - startpoint) / length.
\* step is NaN when startpoint is undefined, the sum is NaN when lut[j - 1] is.
LinearEntry(prev, startpoint, endpoint, length) ==
    IF prev = Undefined \/ startpoint = Undefined
    THEN NaN
    ELSE MathRound(prev * length + (endpoint - startpoint), length)

\* Linear segment: for (j = offset; j < offset + length; j++)
\*                     lut[j] = Math.round(lut[j - 1] + step)
RECURSIVE WriteLinear(_, _, _, _, _, _, _)
WriteLinear(lut, j, stop, startpoint, endpoint, length, bits) ==
    IF j >= stop
    THEN lut
    ELSE WriteLinear(
            TypedArraySet(lut, j,
                LinearEntry(At(lut, j - 1), startpoint, endpoint, length), bits),
            j + 1, stop, startpoint, endpoint, length, bits)

\* A variant of the decoding loop that passes over an Indirect segment.
RECURSIVE ExpandFromSkippingIndirect(_, _, _, _, _)
ExpandFromSkippingIndirect(segmentedData, i, lut, offset, bits) ==
    IF i >= Len(segmentedData)
    THEN [error |-> NoError, lut |-> lut]
    ELSE LET opcode == segmentedData[i + 1]
             length == segmentedData[i + 2]
             value  == segmentedData[i + 3]
         IN  IF opcode = 0
             THEN ExpandFromSkippingIndirect(segmentedData, i + 3,
                      WriteDiscrete(lut, offset, length, value, bits),
                      offset + length, bits)
             ELSE IF opcode = 1
             THEN ExpandFromSkippingIndirect(segmentedData, i + 3,
                      WriteLinear(lut, offset, offset + length,
                                  At(lut, offset - 1), value, length, bits),
                      offset + length, bits)
             ELSE IF opcode = 2
             THEN ExpandFromSkippingIndirect(segmentedData, i + 3, lut,
                                             offset, bits)
             ELSE [error |-> UnexpectedSegmentType, lut |-> lut]

\* The decoding loop from read cursor i (0-based) on.
RECURSIVE ExpandFrom(_, _, _, _, _)
ExpandFrom(segmentedData, i, lut, offset, bits) ==
    IF i >= Len(segmentedData)
    THEN [error |-> NoError, lut |-> lut]
    ELSE LET opcode == segmentedData[i + 1]
             length == segmentedData[i + 2]
             value  == segmentedData[i + 3]
         IN  IF opcode = 0
             THEN ExpandFrom(segmentedData, i + 3,
                      WriteDiscrete(lut, offset, length, value, bits),
                      offset + length, bits)
             ELSE IF opcode = 1
             THEN ExpandFrom(segmentedData, i + 3,
                      WriteLinear(lut, offset, offset + length,
                                  At(lut, offset - 1), value, length, bits),
                      offset + length, bits)
             ELSE IF opcode = 2
             THEN [error |-> IndirectNotSupported, lut |-> lut]
             ELSE [error |-> UnexpectedSegmentType, lut |-> lut]

\* this._expandSegmentedLUTData(segmentedData): the error thrown, or the lut.
ExpandSegmentedLUTData(segmentedData, a) ==
    IF IsNull(segmentedData)
    THEN [error |-> TypeErrorNoLength, lut |-> <<>>]
    ELSE ExpandFrom(segmentedData.items, 0, AllocateLUT(a.numberOfEntries),
                    0, a.bitsPerEntry)

---------------------------------------------------------------------------
\* constructor

\* A variant that keeps the descriptor's count as given.
NumberOfEntriesAsGiven(n) == n

\* n === 0 stands for Math.pow(2, 16) entries.
NumberOfEntries(n) == IF n = 0 THEN 2 ^ 16 ELSE n

DataType(bits) == IF bits = 8 THEN "Uint8Array" ELSE "Uint16Array"

\* The fields of an object that does not exist.
NoAttrs ==
    [uid |-> "", numberOfEntries |-> 0, firstValueMapped |-> 0,
     bitsPerEntry |-> 0,
     redSegmentedData |-> Null, redData |-> Null,
     greenSegmentedData |-> Null, greenData |-> Null,
     blueSegmentedData |-> Null, blueData |-> Null,
     DataType |-> "", data |-> Null]

\* The checks of one channel's data, in the order of the code.  The blue
\* channel tests `segmented != null && data != null` twice and never tests
\* for both missing.
RedDataError(args, n) ==
    IF ~IsNull(args.redSegmentedData) /\ ~IsNull(args.redData) THEN RedBoth
    ELSE IF IsNull(args.redSegmentedData) /\ IsNull(args.redData) THEN RedMissing
    ELSE IF ~IsNull(args.redData) /\ Len(args.redData.items) # n THEN RedWrongLength
    ELSE NoError

GreenDataError(args, n) ==
    IF ~IsNull(args.greenSegmentedData) /\ ~IsNull(args.greenData) THEN GreenBoth
    ELSE IF IsNull(args.greenSegmentedData) /\ IsNull(args.greenData) THEN GreenMissing
    ELSE IF ~IsNull(args.greenData) /\ Len(args.greenData.items) # n THEN GreenWrongLength
    ELSE NoError

BlueDataError(args, n) ==
    IF ~IsNull(args.blueSegmentedData) /\ ~IsNull(args.blueData) THEN BlueBoth
    ELSE IF ~IsNull(args.blueSegmentedData) /\ ~IsNull(args.blueData) THEN BlueBoth
    ELSE IF ~IsNull(args.blueData) /\ Len(args.blueData.items) # n THEN BlueWrongLength
    ELSE NoError

\* The Error the constructor throws on args, or NoError.
ConstructorError(args) ==
    LET r == args.redDescriptor
        g == args.greenDescriptor
        b == args.blueDescriptor
        n == NumberOfEntries(r[1])
    IN  IF Cardinality({r[1], g[1], b[1]}) # 1 THEN FirstDescriptorMismatch
        ELSE IF Cardinality({r[2], g[2], b[2]}) # 1 THEN SecondDescriptorMismatch
        ELSE IF Cardinality({r[3], g[3], b[3]}) # 1 THEN ThirdDescriptorMismatch
        ELSE IF r[3] \notin {8, 16} THEN UnsupportedBits
        ELSE IF RedDataError(args, n) # NoError THEN RedDataError(args, n)
        ELSE IF GreenDataError(args, n) # NoError THEN GreenDataError(args, n)
        ELSE BlueDataError(args, n)

\* this[_attrs] when the constructor returns.
ConstructedAttrs(args) ==
    [uid |-> args.uid,
     numberOfEntries |-> NumberOfEntries(args.redDescriptor[1]),
     firstValueMapped |-> args.redDescriptor[2],
     bitsPerEntry |-> args.redDescriptor[3],
     redSegmentedData |-> args.redSegmentedData, redData |-> args.redData,
     greenSegmentedData |-> args.greenSegmentedData, greenData |-> args.greenData,
     blueSegmentedData |-> args.blueSegmentedData, blueData |-> args.blueData,
     DataType |-> DataType(args.redDescriptor[3]),
     data |-> Null]

---------------------------------------------------------------------------
\* get data ()

\* One channel's LUT: a typed copy of the explicit data when it is truthy
\* (any array is), the expansion of the segmented data otherwise.
ChannelLUT(data, segmentedData, a) ==
    IF ~IsNull(data)
    THEN [error |-> NoError, lut |-> TypedArrayFrom(data.items, a.bitsPerEntry)]
    ELSE ExpandSegmentedLUTData(segmentedData, a)

RedLUT(a) == ChannelLUT(a.redData, a.redSegmentedData, a)
GreenLUT(a) == ChannelLUT(a.greenData, a.greenSegmentedData, a)
BlueLUT(a) == ChannelLUT(a.blueData, a.blueSegmentedData, a)

\* new Set([redLUT.length, blueLUT.length, blueLUT.length]).size > 1
SizesDiffer(redLUT, greenLUT, blueLUT) ==
    Cardinality({Len(redLUT), Len(blueLUT), Len(blueLUT)}) > 1

\* rescale(value, srcMin, srcMax, dstMin, dstMax) of utils.js, as the
\* fraction <<numerator, denominator>>.
Rescale(value, srcMin, srcMax, dstMin, dstMax) ==
    <<dstMin * (srcMax - srcMin) + (value - srcMin) * (dstMax - dstMin),
      srcMax - srcMin>>

\* Math.round(rescale(lut[j], 0, maxInput, 0, maxOutput)); lut[j] undefined
\* gives NaN.
Resampled(lut, j) ==
    LET v == At(lut, j)
        q == Rescale(v, 0, 2 ^ 16 - 1, 0, 2 ^ 8 - 1)
    IN  IF v = Undefined THEN NaN ELSE MathRound(q[1], q[2])

\* steps = Math.pow(2, 16) / Math.pow(2, 8)
Steps == (2 ^ 16) \div (2 ^ 8)

\* The table built from the three LUTs.
Table(a, redLUT, greenLUT, blueLUT) ==
    IF a.bitsPerEntry = 16
    THEN Entries([i \in 1..Steps |->
                    <<Resampled(redLUT, (i - 1) * Steps),
                      Resampled(greenLUT, (i - 1) * Steps),
                      Resampled(blueLUT, (i - 1) * Steps)>>])
    ELSE Entries([i \in 1..a.numberOfEntries |->
                    <<At(redLUT, i - 1), At(greenLUT, i - 1),
                      At(blueLUT, i - 1)>>])

\* A variant that never finds the cache set.
CacheIsEmptyAlways(a) == TRUE

\* this[_attrs].data == null
CacheIsEmpty(a) == IsNull(a.data)

\* A variant in which the table is allocated before the channels are
\* obtained, so that a throw leaves an array in the cache.
ThrownAfterAllocation(a, error) == [error |-> error, data |-> Arr(<<>>)]

\* A throw out of the getter: every throw comes before the first assignment
\* to this[_attrs].data, which keeps its value.
Thrown(a, error) == [error |-> error, data |-> a.data]

\* The body of `if (this[_attrs].data == null)`: the error thrown (the
\* channels are taken in the order red, green, blue) and the cache after it.
Materialize(a) ==
    LET red == RedLUT(a)
        green == GreenLUT(a)
        blue == BlueLUT(a)
    IN  IF red.error # NoError THEN Thrown(a, red.error)
        ELSE IF green.error # NoError THEN Thrown(a, green.error)
        ELSE IF blue.error # NoError THEN Thrown(a, blue.error)
        ELSE IF SizesDiffer(red.lut, green.lut, blue.lut)
        THEN Thrown(a, SizeMismatch)
        ELSE [error |-> NoError,
              data |-> Arr(Table(a, red.lut, green.lut, blue.lut))]

---------------------------------------------------------------------------
\* The calls made on the class.

\* Explicit data of n entries: entry j holds 3 * j, or every entry holds 300.
Ramp(n) == Entries([k \in 1..n |-> 3 * (k - 1)])
Const(n) == Entries([k \in 1..n |-> 300])

\* A program of two Discrete segments that write n entries in all.
Fill(n) == <<0, n - 1, 255, 0, 1, 254>>

\* Segmented programs: Discrete runs that write 4, 2 and twice 2 entries; a
\* Discrete entry followed by a Linear segment of 3; a Linear segment of 2
\* whose quotients are ties; a Linear segment first; Indirect first and
\* after a Discrete segment; an unknown opcode; the empty program.
Programs ==
    { <<0, 4, 100>>,
      <<0, 2, 300>>,
      <<0, 2, 7, 0, 2, 9>>,
      <<0, 1, 10, 1, 3, 20>>,
      <<0, 1, 5, 1, 2, 0>>,
      <<1, 3, 20>>,
      <<2, 1, 5>>,
      <<0, 1, 10, 2, 1, 5>>,
      <<3, 1, 5>>,
      <<>> }

\* What a caller passes for one channel as <<data, segmentedData>>, for a
\* table of n entries.  The table of 2^16 entries is given whole or not at
\* all.
ChannelArgs(n) ==
    IF n > MaxEntries
    THEN { <<Null, Null>>, <<Arr(Ramp(n)), Null>>, <<Null, Arr(Fill(n))>> }
    ELSE { <<Null, Null>>,
           <<Arr(Ramp(n)), Arr(Fill(n))>>,
           <<Arr(Ramp(n)), Null>>,
           <<Arr(Const(n)), Null>>,
           <<Arr(Const(n + 1)), Null>>,
           <<Null, Arr(Fill(n))>> }
         \cup { <<Null, Arr(p)>> : p \in Programs }

\* The descriptor triples passed for tables of 1 .. MaxEntries entries:
\* agreeing ones for every entry count and width, and one disagreement per
\* position.
DescriptorArgs ==
    { <<d, d, d>> : d \in { <<n, 0, b>> : n \in 1..MaxEntries, b \in {8, 12, 16} } }
    \cup { << <<1, 0, 8>>, <<2, 0, 8>>, <<1, 0, 8>> >>,
           << <<1, 0, 8>>, <<1, 1, 8>>, <<1, 0, 8>> >>,
           << <<1, 0, 8>>, <<1, 0, 8>>, <<1, 0, 16>> >> }

\* The descriptor triples passed for the table of 2^16 entries: an entry
\* count of 0.
FullDescriptorArgs ==
    { <<d, d, d>> : d \in { <<0, 0, b>> : b \in {8, 12, 16} } }

Init ==
    /\ constructed = FALSE
    /\ attrs = NoAttrs
    /\ descriptors = << <<0, 0, 0>>, <<0, 0, 0>>, <<0, 0, 0>> >>
    /\ lastCall = "none"
    /\ lastError = NoError
    /\ returned = Null
    /\ reads = 0
    /\ materializations = 0

\* new PaletteColorLookupTable(args)
New(args) ==
    /\ lastCall = "none"
    /\ lastCall' = "new"
    /\ descriptors' = <<args.redDescriptor, args.greenDescriptor, args.blueDescriptor>>
    /\ lastError' = ConstructorError(args)
    /\ constructed' = (ConstructorError(args) = NoError)
    /\ attrs' = IF ConstructorError(args) = NoError
                THEN ConstructedAttrs(args)
                ELSE NoAttrs
    /\ UNCHANGED <<returned, reads, materializations>>

\* table.data
GetData ==
    /\ constructed
    /\ reads < MaxReads
    /\ reads' = reads + 1
    /\ lastCall' = "data"
    /\ IF CacheIsEmpty(attrs)
       THEN LET m == Materialize(attrs)
            IN  /\ attrs' = [attrs EXCEPT !.data = m.data]
                /\ lastError' = m.error
                /\ returned' = IF m.error = NoError THEN m.data ELSE Null
                /\ materializations' =
                       IF m.error = NoError
                       THEN materializations + 1
                       ELSE materializations
       ELSE /\ lastError' = NoError
            /\ returned' = attrs.data
            /\ UNCHANGED <<attrs, materializations>>
    /\ UNCHANGED <<constructed, descriptors>>

\* One construction with descriptors ds, on any of the channel arguments
\* above.
NewWith(ds) ==
    /\ lastCall = "none"
    /\ \E r \in ChannelArgs(NumberOfEntries(ds[1][1])),
          g \in ChannelArgs(NumberOfEntries(ds[1][1])),
          b \in ChannelArgs(NumberOfEntries(ds[1][1])) :
            New([uid |-> "1.2.3",
                 redDescriptor |-> ds[1], greenDescriptor |-> ds[2],
                 blueDescriptor |-> ds[3],
                 redData |-> r[1], redSegmentedData |-> r[2],
                 greenData |-> g[1], greenSegmentedData |-> g[2],
                 blueData |-> b[1], blueSegmentedData |-> b[2]])

\* The construction of a table of at most MaxEntries entries.
Construct == \E ds \in DescriptorArgs : NewWith(ds)

\* The construction of a table of 2^16 entries.
ConstructFull == \E ds \in FullDescriptorArgs : NewWith(ds)

Next ==
    \/ Construct
    \/ ConstructFull
    \/ GetData

Spec == Init /\ [][Next]_vars

---------------------------------------------------------------------------
\* Vocabulary of the properties.

ReadSucceeded == lastCall = "data" /\ lastError = NoError

ReadFailed == lastCall = "data" /\ lastError # NoError

\* The segments of a program, numbered from 1.
Segments(p) == 1..(Len(p) \div 3)
Opcode(p, k) == p[3 * (k - 1) + 1]
SegLength(p, k) == p[3 * (k - 1) + 2]

\* The entries the first k segments of p write.
RECURSIVE WrittenBy(_, _)
WrittenBy(p, k) == IF k = 0 THEN 0 ELSE WrittenBy(p, k - 1) + SegLength(p, k)

WrittenLength(p) == WrittenBy(p, Len(p) \div 3)

\* A channel's <<data, segmentedData>> as the object holds them.
Channel(c) ==
    IF c = "red" THEN <<attrs.redData, attrs.redSegmentedData>>
    ELSE IF c = "green" THEN <<attrs.greenData, attrs.greenSegmentedData>>
    ELSE <<attrs.blueData, attrs.blueSegmentedData>>

Channels == <<"red", "green", "blue">>

\* The channel is decoded from a segmented program when materializing.
IsSegmented(c) == IsNull(Channel(c)[1]) /\ ~IsNull(Channel(c)[2])

Program(c) == Channel(c)[2].items

\* The channel is obtained without an error: explicit data, or a program of
\* Discrete and Linear segments only.
ObtainedCleanly(c) ==
    \/ ~IsNull(Channel(c)[1])
    \/ /\ IsSegmented(c)
       /\ \A k \in Segments(Program(c)) : Opcode(Program(c), k) \in {0, 1}

\* The decoder reaches an Indirect segment of the channel's program.
ReachesIndirect(c) ==
    /\ IsSegmented(c)
    /\ \E k \in Segments(Program(c)) :
          /\ Opcode(Program(c), k) = 2
          /\ \A h \in 1..(k - 1) : Opcode(Program(c), h) \in {0, 1}

\* The decoder meets a Linear segment while its write cursor is 0.
LinearAtOffsetZero(p) ==
    \E k \in Segments(p) : Opcode(p, k) = 1 /\ WrittenBy(p, k - 1) = 0

\* The red components of the table last returned.
RedColumn == [i \in 1..Len(returned.items) |-> returned.items[i][1]]

---------------------------------------------------------------------------
\* C1: an object is produced only if, for each of the red, green and blue
\* channels, explicit data or segmented data was supplied; with neither the
\* constructor throws.
C1_MissingDataRejected ==
    constructed =>
        \A i \in 1..3 :
            ~(IsNull(Channel(Channels[i])[1]) /\ IsNull(Channel(Channels[i])[2]))

\* C2: every component of every triplet of a table that `data` returned is
\* an integer in 0 .. 255, for 8-bit and 16-bit tables of any size.
C2_ComponentsAreBytes ==
    ReadSucceeded =>
        \A i \in 1..Len(returned.items) :
            \A k \in 1..3 : returned.items[i][k] \in 0..255

\* C3: a program whose Discrete and Linear segments write more entries than
\* numberOfEntries makes the read fail; no table is returned for it.
C3_OverlongProgramFails ==
    ReadSucceeded =>
        \A i \in 1..3 :
            IsSegmented(Channels[i]) =>
                WrittenLength(Program(Channels[i])) <= attrs.numberOfEntries

\* C4: the program [0,1,10, 1,3,20] on an 8-bit table of 4 entries expands
\* to [10, 13, 17, 20]: the Linear segment ends on its endpoint.
C4_LinearEndsOnEndpoint ==
    ( /\ ReadSucceeded
      /\ attrs.bitsPerEntry = 8
      /\ attrs.numberOfEntries = 4
      /\ attrs.redSegmentedData = Arr(<<0, 1, 10, 1, 3, 20>>) )
    => RedColumn = <<10, 13, 17, 20>>

\* C5: after a read of `data` has succeeded the cache is set and is what was
\* returned; from then on no step changes the object or materializes again,
\* and every read returns the cached table without an error.
C5_MaterializedOnce ==
    /\ [](ReadSucceeded => (~IsNull(attrs.data) /\ returned = attrs.data))
    /\ [][~IsNull(attrs.data) =>
            /\ attrs' = attrs
            /\ materializations' = materializations
            /\ returned' = attrs.data
            /\ lastError' = NoError]_vars

C5_Witness ==
    /\ ReadSucceeded
    /\ reads = 2
    /\ attrs.numberOfEntries = 4
    /\ materializations = 1
    /\ IsSegmented("red")
    /\ returned = attrs.data

\* C6: a read of `data` that throws leaves the object as it was, with the
\* cache unset, and returns nothing; the read after a failed read fails with
\* the same error.
C6_FailedReadHasNoEffect ==
    /\ [][(lastCall' = "data" /\ lastError' # NoError) =>
            /\ attrs' = attrs
            /\ IsNull(attrs'.data)
            /\ returned' = Null
            /\ materializations' = materializations]_vars
    /\ [][ReadFailed => (lastCall' = "data" /\ lastError' = lastError)]_vars

C6_Witness ==
    /\ ReadFailed
    /\ reads = 2
    /\ ObtainedCleanly("red")
    /\ ~ObtainedCleanly("green")
    /\ IsNull(attrs.data)

\* C7: the table `data` returns has numberOfEntries triplets for an 8-bit
\* table, a descriptor count of 0 standing for 65536, and 256 triplets for a
\* 16-bit table.
C7_TableLength ==
    ReadSucceeded =>
        Len(returned.items) =
            IF attrs.bitsPerEntry = 8
            THEN (IF descriptors[1][1] = 0 THEN 65536 ELSE descriptors[1][1])
            ELSE 256

C7_Witness ==
    /\ ReadSucceeded
    /\ attrs.bitsPerEntry = 8
    /\ descriptors[1][1] = 0
    /\ IsSegmented("red")
    /\ Len(returned.items) = 65536

\* C8: when the decoder reaches an Indirect segment (opcode 2) in the
\* program of the first channel that is not obtained cleanly, the read fails
\* with the unsupported-segment error and no table is returned or cached.
C8_IndirectSegmentFails ==
    lastCall = "data" =>
        \A i \in 1..3 :
            ( /\ ReachesIndirect(Channels[i])
              /\ \A h \in 1..(i - 1) : ObtainedCleanly(Channels[h]) )
            => ( /\ lastError = IndirectNotSupported
                 /\ returned = Null
                 /\ IsNull(attrs.data) )

C8_Witness ==
    /\ lastCall = "data"
    /\ IsSegmented("red")
    /\ ObtainedCleanly("red")
    /\ attrs.greenSegmentedData = Arr(<<0, 1, 10, 2, 1, 5>>)
    /\ lastError = IndirectNotSupported

C10_ChannelLengthsAgree ==
    ( /\ constructed
      /\ \A i \in 1..3 :
            ~IsNull(Channel(Channels[i])[1]) \/ ~IsNull(Channel(Channels[i])[2]) )
    => /\ \A lut \in {RedLUT(attrs), GreenLUT(attrs), BlueLUT(attrs)} :
            lut.error = NoError => Len(lut.lut) = attrs.numberOfEntries
       /\ lastError # SizeMismatch

C10_Witness ==
    /\ ReadSucceeded
    /\ IsSegmented("red")
    /\ WrittenLength(Program("red")) > attrs.numberOfEntries
    /\ IsSegmented("green")
    /\ WrittenLength(Program("green")) < attrs.numberOfEntries
    /\ ~IsNull(attrs.blueData)

====
